---- MODULE Spec2Model ----
(***************************************************************************)
(* A model of source/FreeRTOS_IPv4.c: the IPv4 multicast classifier        *)
(* xIsIPv4Multicast, the admission filter prvAllowIPPacketIPv4 and the     *)
(* header-option normalizer prvCheckIP4HeaderOptions.                      *)
(*                                                                         *)
(* A frame is the byte array pucEthernetBuffer (index 0 is buf[1]) with    *)
(* its logical length xDataLength.  Multi-byte header fields are read the  *)
(* way a little-endian build reads them (ipconfigBYTE_ORDER ==             *)
(* pdFREERTOS_LITTLE_ENDIAN): the raw field is the little-endian load of   *)
(* the bytes in memory and FreeRTOS_ntohs/FreeRTOS_ntohl swap the bytes.   *)
(*                                                                         *)
(* A uint32_t is the tuple of its four bytes, most significant first (the  *)
(* model checker's integers stop at 2^31 - 1).  For the same reason size_t *)
(* is SizeBits wide; every length of the model is far below 2^SizeBits, so *)
(* the width only sets how large a wrapped difference is.                  *)
(***************************************************************************)
EXTENDS Integers, Sequences, FiniteSets

VARIABLES
    cfg,          \* the ipconfig* settings of the build
    buf,          \* pxNetworkBuffer->pucEthernetBuffer
    xDataLength,  \* pxNetworkBuffer->xDataLength
    pxEndPoint,   \* pxNetworkBuffer->pxEndPoint: "NULL" or "ep"
    env,          \* what the collaborators answer for this frame
    eReturn,      \* the verdict of the last call, "none" before it
    eCheck,       \* which check of the filter decided the verdict
    calls,        \* the checksum collaborators the last call invoked
    pc,           \* where the receive path stands
    xCount,       \* the static xCount of the zero-checksum diagnostic
    nLog,         \* diagnostic lines emitted so far
    nCalls,       \* filter invocations so far
    nDropped,     \* zero-checksum UDP rejections so far
    orig,         \* the frame as it was handed to the normalizer
    fault,        \* the memmove left [0, original xDataLength)
    ulIPAddress,  \* argument of xIsIPv4Multicast (4 octets as in memory)
    xReturn,      \* result of xIsIPv4Multicast
    ctx           \* the receive contexts of the concurrent model

vars == << cfg, buf, xDataLength, pxEndPoint, env, eReturn, eCheck, calls, pc,
           xCount, nLog, nCalls, nDropped, orig, fault, ulIPAddress, xReturn, ctx >>

(***************************************************************************)
(* Bounds of the model.                                                    *)
(***************************************************************************)
MaxPayload == 3      \* bytes of payload after the transport header
MaxCalls == 7        \* filter invocations of the sequential log model
NumCtx == 2          \* receive contexts of the concurrent model
MaxFramesPerCtx == 3 \* frames each concurrent context processes
SizeBits == 16       \* modelled width of size_t

(***************************************************************************)
(* Program constants.                                                      *)
(***************************************************************************)
pdFALSE == 0
pdTRUE == 1
eProcessBuffer == "eProcessBuffer"
eReleaseBuffer == "eReleaseBuffer"
ipSIZE_OF_ETH_HEADER == 14
ipSIZE_OF_IPv4_HEADER == 20
ipSIZE_OF_IPv6_HEADER == 40
ipIPV4_VERSION_HEADER_LENGTH_MIN == 69    \* 0x45
ipIPV4_VERSION_HEADER_LENGTH_MAX == 79    \* 0x4F
ipFIRST_MULTI_CAST_IPv4 == << 224, 0, 0, 0 >>    \* 0xE0000000
ipLAST_MULTI_CAST_IPv4 == << 240, 0, 0, 0 >>     \* 0xF0000000
ipFRAGMENT_OFFSET_BIT_MASK == 65311       \* 0xff1f, network order on a little-endian build
ipFRAGMENT_FLAGS_MORE_FRAGMENTS == 32     \* 0x0020, network order on a little-endian build
ipCORRECT_CRC == 65535                    \* 0xffff
ipPROTOCOL_UDP == 17
ipIPv6_FRAME_TYPE == 56710                \* 0xDD86: 0x86DD as loaded on a little-endian build
LogLimit == 5                             \* the 5 of "xCount < 5"

Byte == 0 .. 255

(***************************************************************************)
(* Bit and byte helpers.                                                   *)
(***************************************************************************)
RECURSIVE Pow2(_)
Pow2(n) == IF n = 0 THEN 1 ELSE 2 * Pow2(n - 1)

RECURSIVE BitAnd(_, _)
BitAnd(x, y) ==
    IF x = 0 \/ y = 0 THEN 0
    ELSE (IF x % 2 = 1 /\ y % 2 = 1 THEN 1 ELSE 0) + 2 * BitAnd(x \div 2, y \div 2)

RECURSIVE BitOr(_, _)
BitOr(x, y) ==
    IF x = 0 THEN y
    ELSE IF y = 0 THEN x
    ELSE (IF x % 2 = 1 \/ y % 2 = 1 THEN 1 ELSE 0) + 2 * BitOr(x \div 2, y \div 2)

\* pucEthernetBuffer[ off ]
At(b, off) == b[off + 1]

\* a uint16_t / uint32_t field at byte offset off, as a little-endian build loads it
Load16(b, off) == At(b, off) + 256 * At(b, off + 1)
Load32(b, off) == << At(b, off + 3), At(b, off + 2), At(b, off + 1), At(b, off) >>

\* the uint32_t a little-endian build holds for the octets a (a[1] first on the wire)
Word32(a) == << a[4], a[3], a[2], a[1] >>

\* x < y and x >= y on uint32_t
Less32(x, y) ==
    \E i \in 1 .. 4 : x[i] < y[i] /\ \A j \in 1 .. (i - 1) : x[j] = y[j]
Geq32(x, y) == ~Less32(x, y)

\* ( ul & 0xffU )
LowByte32(ul) == ul[4]

FreeRTOS_ntohl(ul) == << ul[4], ul[3], ul[2], ul[1] >>

FreeRTOS_ntohs(us) == (us % 256) * 256 + ((us \div 256) % 256)

\* the macro's result is cast to uint16_t
FreeRTOS_htons(us) == FreeRTOS_ntohs(us % 65536)

(***************************************************************************)
(* xIsIPv4Multicast                                                        *)
(***************************************************************************)
\* the range test with 240.0.0.0 included
xIsIPv4MulticastClosed(ul) ==
    LET ulIP == FreeRTOS_ntohl(ul)
    IN  IF Geq32(ulIP, ipFIRST_MULTI_CAST_IPv4) /\ ~Less32(ipLAST_MULTI_CAST_IPv4, ulIP)
        THEN pdTRUE ELSE pdFALSE

xIsIPv4Multicast(ul) ==
    LET ulIP == FreeRTOS_ntohl(ul)
    IN  IF Geq32(ulIP, ipFIRST_MULTI_CAST_IPv4) /\ Less32(ulIP, ipLAST_MULTI_CAST_IPv4)
        THEN pdTRUE ELSE pdFALSE

(***************************************************************************)
(* Collaborators of the filter.  Their code is outside this file: the      *)
(* endpoint table holds one endpoint, and the answers of the checksum      *)
(* routines and of the link-state query are inputs carried in env.         *)
(***************************************************************************)
NULL == "NULL"
xBroadcastMACAddress == << 255, 255, 255, 255, 255, 255 >>
LocalMAC == << 2, 0, 0, 0, 0, 1 >>
OtherMAC == << 2, 0, 0, 0, 0, 9 >>
LocalIP == << 192, 168, 1, 10 >>

FreeRTOS_FindEndPointOnIP_IPv4(ulIP) == IF ulIP = Word32(LocalIP) THEN "ep" ELSE NULL

FreeRTOS_FindEndPointOnMAC(mac) == IF mac = LocalMAC THEN "ep" ELSE NULL

FreeRTOS_IsNetworkUp(e) == IF e.netUp THEN pdTRUE ELSE pdFALSE

\* ( ucVersionHeaderLength & 0x0F ) << 2: the header length the caller passes on
HeaderLengthOf(b) == BitAnd(At(b, ipSIZE_OF_ETH_HEADER), 15) * 4

\* the declared sizes fit the buffer: the header, the total length and, for
\* UDP, the 8-byte transport header
SizesConsistent(b, len) ==
    LET H == HeaderLengthOf(b)
        total == FreeRTOS_ntohs(Load16(b, ipSIZE_OF_ETH_HEADER + 2))
        proto == At(b, ipSIZE_OF_ETH_HEADER + 9)
    IN  /\ len >= ipSIZE_OF_ETH_HEADER + ipSIZE_OF_IPv4_HEADER
        /\ H >= ipSIZE_OF_IPv4_HEADER
        /\ len >= ipSIZE_OF_ETH_HEADER + H
        /\ total >= H
        /\ len >= ipSIZE_OF_ETH_HEADER + total
        /\ (proto = ipPROTOCOL_UDP => total >= H + 8)

xCheckSizeFields(b, len) == IF SizesConsistent(b, len) THEN pdTRUE ELSE pdFALSE

usGenerateChecksum(e) == e.usHeaderCrc

\* 0x1234 is ipINVALID_LENGTH
usGenerateProtocolChecksum(b, len, e) ==
    IF SizesConsistent(b, len) THEN e.usProtocolCrc ELSE 4660

(***************************************************************************)
(* prvAllowIPPacketIPv4, check family A                                    *)
(* ( ipconfigETHERNET_DRIVER_FILTERS_PACKETS == 0 )                        *)
(***************************************************************************)
usFragmentOffset(b) == Load16(b, ipSIZE_OF_ETH_HEADER + 6)
ucVersionHeaderLength(b) == At(b, ipSIZE_OF_ETH_HEADER)
ulSourceIPAddress(b) == Load32(b, ipSIZE_OF_ETH_HEADER + 12)
ulDestinationIPAddress(b) == Load32(b, ipSIZE_OF_ETH_HEADER + 16)
xDestinationAddress(b) == SubSeq(b, 1, 6)
xSourceAddress(b) == SubSeq(b, 7, 12)

\* the fragment test without the more-fragments flag
IsFragmentOffsetOnly(b) ==
    BitAnd(usFragmentOffset(b), ipFRAGMENT_OFFSET_BIT_MASK) # 0

IsFragment(b) ==
    \/ BitAnd(usFragmentOffset(b), ipFRAGMENT_OFFSET_BIT_MASK) # 0
    \/ BitAnd(usFragmentOffset(b), ipFRAGMENT_FLAGS_MORE_FRAGMENTS) # 0

\* the range test on the header-length nibble alone
BadVersionHeaderLengthNibble(b) ==
    \/ BitAnd(ucVersionHeaderLength(b), 15) < 5
    \/ BitAnd(ucVersionHeaderLength(b), 15) > 15

BadVersionHeaderLength(b) ==
    \/ ucVersionHeaderLength(b) < ipIPV4_VERSION_HEADER_LENGTH_MIN
    \/ ucVersionHeaderLength(b) > ipIPV4_VERSION_HEADER_LENGTH_MAX

\* the destination test without the FreeRTOS_IsNetworkUp conjunct
DestinationUnreachableNoUpTest(b, ep, e) ==
    /\ ep = NULL
    /\ FreeRTOS_FindEndPointOnIP_IPv4(ulDestinationIPAddress(b)) = NULL
    /\ LowByte32(FreeRTOS_ntohl(ulDestinationIPAddress(b))) # 255
    /\ xIsIPv4Multicast(ulDestinationIPAddress(b)) = pdFALSE

DestinationUnreachable(b, ep, e) ==
    /\ ep = NULL
    /\ FreeRTOS_FindEndPointOnIP_IPv4(ulDestinationIPAddress(b)) = NULL
    /\ LowByte32(FreeRTOS_ntohl(ulDestinationIPAddress(b))) # 255
    /\ xIsIPv4Multicast(ulDestinationIPAddress(b)) = pdFALSE
    /\ FreeRTOS_IsNetworkUp(e) # pdFALSE

\* the else-if chain of lines 108-166: the name of the check that releases
\* the buffer, "pass" when none does
FamilyA(b, ep, e) ==
    IF IsFragment(b) THEN "fragment"
    ELSE IF BadVersionHeaderLength(b) THEN "version"
    ELSE IF DestinationUnreachable(b, ep, e) THEN "destination"
    ELSE IF LowByte32(FreeRTOS_ntohl(ulSourceIPAddress(b))) = 255 THEN "source"
    ELSE IF /\ xBroadcastMACAddress = xDestinationAddress(b)
            /\ LowByte32(FreeRTOS_ntohl(ulDestinationIPAddress(b))) # 255
         THEN "broadcast-mac"
    ELSE IF xBroadcastMACAddress = xSourceAddress(b) THEN "source-mac"
    ELSE IF xIsIPv4Multicast(ulSourceIPAddress(b)) = pdTRUE THEN "multicast-source"
    ELSE "pass"

(***************************************************************************)
(* prvAllowIPPacketIPv4, check family B                                    *)
(***************************************************************************)
\* ( ipconfigDRIVER_INCLUDED_RX_IP_CHECKSUM == 0 ), lines 170-206
\* the checksum tests without the loop-back exemption
SoftwareChecksumNoLoopback(b, len, e) ==
    IF usGenerateChecksum(e) # ipCORRECT_CRC
    THEN [check |-> "ip-checksum", calls |-> {"usGenerateChecksum"}]
    ELSE IF usGenerateProtocolChecksum(b, len, e) # ipCORRECT_CRC
    THEN [check |-> "protocol-checksum",
          calls |-> {"usGenerateChecksum", "usGenerateProtocolChecksum"}]
    ELSE [check |-> "pass",
          calls |-> {"usGenerateChecksum", "usGenerateProtocolChecksum"}]

SoftwareChecksum(b, len, e) ==
    IF FreeRTOS_FindEndPointOnMAC(xSourceAddress(b)) = NULL
    THEN IF usGenerateChecksum(e) # ipCORRECT_CRC
         THEN [check |-> "ip-checksum", calls |-> {"usGenerateChecksum"}]
         ELSE IF usGenerateProtocolChecksum(b, len, e) # ipCORRECT_CRC
         THEN [check |-> "protocol-checksum",
               calls |-> {"usGenerateChecksum", "usGenerateProtocolChecksum"}]
         ELSE [check |-> "pass",
               calls |-> {"usGenerateChecksum", "usGenerateProtocolChecksum"}]
    ELSE [check |-> "pass", calls |-> {}]

\* lines 230-247: where the code looks for the transport header
ProtocolOf(b) ==
    IF Load16(b, 12) = ipIPv6_FRAME_TYPE
    THEN At(b, ipSIZE_OF_ETH_HEADER + 6)
    ELSE At(b, ipSIZE_OF_ETH_HEADER + 9)

ProtocolHeadersOffset(b) ==
    IF Load16(b, 12) = ipIPv6_FRAME_TYPE
    THEN ipSIZE_OF_ETH_HEADER + ipSIZE_OF_IPv6_HEADER
    ELSE ipSIZE_OF_ETH_HEADER + ipSIZE_OF_IPv4_HEADER

\* lines 250-252: pxProtocolHeaders->xUDPHeader.usChecksum == 0 for a UDP packet
IsZeroChecksumUDP(b) ==
    /\ ProtocolOf(b) = ipPROTOCOL_UDP
    /\ Load16(b, ProtocolHeadersOffset(b) + 6) = 0

\* lines 254-266: the static counter after the diagnostic block
\* ( ipconfigHAS_PRINTF != 0 ) and xCount < 5
LogGuard(c, count) == c.HAS_PRINTF # 0 /\ count < LogLimit

\* the counter test as xCount <= 5
LogStepInclusive(c, count) ==
    IF c.HAS_PRINTF # 0 /\ count <= LogLimit THEN count + 1 ELSE count

LogStep(c, count) == IF LogGuard(c, count) THEN count + 1 ELSE count

\* ( ipconfigDRIVER_INCLUDED_RX_IP_CHECKSUM != 0 ), lines 207-280
DriverChecksum(c, b, len) ==
    IF xCheckSizeFields(b, len) # pdTRUE THEN "size-fields"
    ELSE IF c.UDP_PASS_ZERO_CHECKSUM_PACKETS = 0 /\ IsZeroChecksumUDP(b)
    THEN "zero-checksum-udp"
    ELSE "pass"

(***************************************************************************)
(* prvAllowIPPacketIPv4: the verdict, the deciding check, the checksum     *)
(* routines invoked and the static counter afterwards.                     *)
(***************************************************************************)
prvAllowIPPacketIPv4(c, b, len, ep, e, count) ==
    LET a == IF c.ETHERNET_DRIVER_FILTERS_PACKETS = 0 THEN FamilyA(b, ep, e) ELSE "pass"
        sw == SoftwareChecksum(b, len, e)
        chk == IF a # "pass" THEN a
               ELSE IF c.DRIVER_INCLUDED_RX_IP_CHECKSUM = 0 THEN sw.check
               ELSE DriverChecksum(c, b, len)
    IN  [ eReturn |-> IF chk = "pass" THEN eProcessBuffer ELSE eReleaseBuffer,
          eCheck  |-> chk,
          calls   |-> IF a = "pass" /\ c.DRIVER_INCLUDED_RX_IP_CHECKSUM = 0
                      THEN sw.calls ELSE {},
          xCount  |-> IF chk = "zero-checksum-udp" THEN LogStep(c, count) ELSE count ]

(***************************************************************************)
(* prvCheckIP4HeaderOptions                                                *)
(***************************************************************************)
SizeT(n) == n % Pow2(SizeBits)

\* const size_t optlen = ( ( size_t ) uxHeaderLength ) - ipSIZE_OF_IPv4_HEADER
OptLen(uxHeaderLength) == SizeT(uxHeaderLength - ipSIZE_OF_IPv4_HEADER)

\* the move length without optlen taken off
xMoveLenKeepingOptions(len, optlen) ==
    SizeT(len - (ipSIZE_OF_IPv4_HEADER + ipSIZE_OF_ETH_HEADER))

\* pxNetworkBuffer->xDataLength - ( optlen + ipSIZE_OF_IPv4_HEADER + ipSIZE_OF_ETH_HEADER )
xMoveLen(len, optlen) ==
    SizeT(len - (optlen + ipSIZE_OF_IPv4_HEADER + ipSIZE_OF_ETH_HEADER))

\* memmove( pucTarget, pucSource, n ) inside the buffer
Memmove(b, target, source, n) ==
    [i \in 1 .. Len(b) |->
        IF i - 1 >= target /\ i - 1 < target + n THEN b[i - target + source] ELSE b[i]]

Store8(b, off, v) == [b EXCEPT ![off + 1] = v]
Store16(b, off, v) == [b EXCEPT ![off + 1] = v % 256, ![off + 2] = v \div 256]

\* FreeRTOS_htons( FreeRTOS_ntohs( pxIPHeader->usLength ) - optlen )
NewLength(usLength, optlen) == FreeRTOS_htons(SizeT(FreeRTOS_ntohs(usLength) - optlen))

\* ( ucVersionHeaderLength & 0xF0U ) | ( ( ipSIZE_OF_IPv4_HEADER >> 2 ) & 0x0FU )
NewVersionHeaderLength(vhl) ==
    BitOr(BitAnd(vhl, 240), BitAnd(ipSIZE_OF_IPv4_HEADER \div 4, 15))

\* The verdict and the frame afterwards.  underflow: the size_t subtraction
\* of xMoveLen wrapped; fault: the move's source or target range passes the
\* data length the frame had; then the call is undefined and buf is left
\* for the action to choose among the outcomes.
prvCheckIP4HeaderOptions(c, b, len, uxHeaderLength) ==
    IF c.IP_PASS_PACKETS_WITH_IP_OPTIONS = 0
    THEN [eReturn |-> eReleaseBuffer, buf |-> b, xDataLength |-> len,
          underflow |-> FALSE, fault |-> FALSE]
    ELSE
        LET optlen == OptLen(uxHeaderLength)
            pucSource == ipSIZE_OF_ETH_HEADER + uxHeaderLength
            pucTarget == ipSIZE_OF_ETH_HEADER + ipSIZE_OF_IPv4_HEADER
            n == xMoveLen(len, optlen)
            bad == pucSource + n > len \/ pucTarget + n > len
            moved == IF bad THEN b ELSE Memmove(b, pucTarget, pucSource, n)
            withLength ==
                Store16(moved, ipSIZE_OF_ETH_HEADER + 2,
                        NewLength(Load16(moved, ipSIZE_OF_ETH_HEADER + 2), optlen))
            withVersion ==
                Store8(withLength, ipSIZE_OF_ETH_HEADER,
                       NewVersionHeaderLength(ucVersionHeaderLength(withLength)))
        IN  [eReturn |-> eProcessBuffer, buf |-> withVersion,
             xDataLength |-> SizeT(len - optlen),
             underflow |-> len < optlen + ipSIZE_OF_IPv4_HEADER + ipSIZE_OF_ETH_HEADER,
             fault |-> bad]

\* what an out-of-range memmove may leave behind
Scribbled(b) == [i \in 1 .. Len(b) |-> 238]

(***************************************************************************)
(* Frames handed to the receive path.                                      *)
(***************************************************************************)
BufSize == ipSIZE_OF_ETH_HEADER + 60 + 8 + MaxPayload

Pad(s) == s \o [i \in 1 .. (BufSize - Len(s)) |-> 0]
Be16(v) == << v \div 256, v % 256 >>
Fill(n, x) == [i \in 1 .. n |-> x]
Payload(k) == [i \in 1 .. k |-> 100 + i]
UdpHeader(port, n, csum) == Be16(port) \o Be16(port) \o Be16(n) \o Be16(csum)
OptionBytes(vhl) == IF (vhl % 16) * 4 > 20 THEN (vhl % 16) * 4 - 20 ELSE 0

MkFrame(f) ==
    Pad(f.dstMAC \o f.srcMAC \o f.type \o << f.vhl, 0 >> \o Be16(f.total)
        \o << 0, 1 >> \o f.frag \o << 64, f.proto >> \o << 171, 205 >>
        \o f.src \o f.dst \o f.tail)

\* a UDP datagram of k payload bytes behind a header of vhl; x fills the
\* options and the ports
UdpTail(vhl, x, csum, k) ==
    Fill(OptionBytes(vhl), x) \o UdpHeader(257 * x, 8 + k, csum) \o Payload(k)

FullLength(vhl, k) == ipSIZE_OF_ETH_HEADER + 20 + OptionBytes(vhl) + 8 + k

TypeIPv4 == << 8, 0 >>
TypeIPv6 == << 134, 221 >>
ForeignIP == << 10, 0, 0, 7 >>
BroadcastIP == << 192, 168, 1, 255 >>
MulticastIP == << 224, 0, 0, 251 >>
SenderIP == << 192, 168, 1, 20 >>

Bit == {0, 1}
CfgSet ==
    [ ETHERNET_DRIVER_FILTERS_PACKETS : Bit, DRIVER_INCLUDED_RX_IP_CHECKSUM : Bit,
      UDP_PASS_ZERO_CHECKSUM_PACKETS : Bit, HAS_PRINTF : Bit,
      IP_PASS_PACKETS_WITH_IP_OPTIONS : Bit ]

InitRest ==
    /\ eReturn = "none"
    /\ eCheck = "none"
    /\ calls = {}
    /\ xCount = 0
    /\ nLog = 0
    /\ nCalls = 0
    /\ nDropped = 0
    /\ orig = [buf |-> << >>, xDataLength |-> 0, underflow |-> FALSE]
    /\ fault = FALSE
    /\ ulIPAddress = << 0, 0, 0, 0 >>
    /\ xReturn = "none"
    /\ ctx = << >>

(***************************************************************************)
(* The receive path: the filter, then the normalizer when the filter       *)
(* accepted a frame whose header carries options.                          *)
(***************************************************************************)
Allow ==
    /\ pc = "received"
    /\ LET r == prvAllowIPPacketIPv4(cfg, buf, xDataLength, pxEndPoint, env, xCount)
       IN  /\ eReturn' = r.eReturn
           /\ eCheck' = r.eCheck
           /\ calls' = r.calls
           /\ xCount' = r.xCount
           /\ nLog' = IF r.xCount # xCount THEN nLog + 1 ELSE nLog
           /\ nDropped' = IF r.eCheck = "zero-checksum-udp" THEN nDropped + 1 ELSE nDropped
    /\ nCalls' = nCalls + 1
    /\ pc' = "filtered"
    /\ UNCHANGED << cfg, buf, xDataLength, pxEndPoint, env, orig, fault,
                    ulIPAddress, xReturn, ctx >>

OptionsPresent(b) == HeaderLengthOf(b) > ipSIZE_OF_IPv4_HEADER

CheckOptions ==
    /\ pc = "filtered"
    /\ eReturn = eProcessBuffer
    /\ OptionsPresent(buf)
    /\ LET r == prvCheckIP4HeaderOptions(cfg, buf, xDataLength, HeaderLengthOf(buf))
       IN  /\ eReturn' = r.eReturn
           /\ buf' \in (IF r.fault THEN {r.buf, Scribbled(r.buf)} ELSE {r.buf})
           /\ xDataLength' = r.xDataLength
           /\ fault' = r.fault
           /\ orig' = [buf |-> buf, xDataLength |-> xDataLength, underflow |-> r.underflow]
    /\ pc' = "done"
    /\ UNCHANGED << cfg, pxEndPoint, env, eCheck, calls, xCount, nLog, nCalls,
                    nDropped, ulIPAddress, xReturn, ctx >>

Received(c, f, len, ep, e) ==
    /\ cfg = c
    /\ buf = MkFrame(f)
    /\ xDataLength = len
    /\ pxEndPoint = ep
    /\ env = e
    /\ pc = "received"
    /\ InitRest

NextPath == Allow \/ CheckOptions

\* destination and source MAC of a frame
MacPairs ==
    { << LocalMAC, OtherMAC >>, << xBroadcastMACAddress, OtherMAC >>,
      << LocalMAC, xBroadcastMACAddress >>, << LocalMAC, LocalMAC >> }

\* header checksum result, protocol checksum result (0x4321 is
\* ipUNHANDLED_PROTOCOL, 0 is ipWRONG_CRC)
CrcPairs == { << 65535, 65535 >>, << 65534, 65535 >>, << 65535, 0 >>, << 65535, 17185 >> }

(***************************************************************************)
(* SpecFilter: the address checks of family A over destinations, sources,  *)
(* MAC addresses, buffer endpoints and link states.                        *)
(***************************************************************************)
InitFilter ==
    \E c \in {x \in CfgSet : x.HAS_PRINTF = 1 /\ x.IP_PASS_PACKETS_WITH_IP_OPTIONS = 1},
       vhl \in {68, 69, 70, 79},
       frag \in {<< 0, 0 >>, << 32, 0 >>},
       dst \in {LocalIP, ForeignIP, BroadcastIP, MulticastIP},
       src \in {SenderIP, << 192, 168, 1, 255 >>, << 224, 0, 0, 5 >>},
       macs \in MacPairs,
       ep \in {NULL, "ep"},
       up \in BOOLEAN,
       crc \in {<< 65535, 65535 >>, << 65534, 65535 >>} :
        Received(c,
                 [dstMAC |-> macs[1], srcMAC |-> macs[2], type |-> TypeIPv4,
                  vhl |-> vhl, total |-> FullLength(vhl, 1) - ipSIZE_OF_ETH_HEADER,
                  frag |-> frag, proto |-> ipPROTOCOL_UDP, src |-> src, dst |-> dst,
                  tail |-> UdpTail(vhl, 1, 4660, 1)],
                 FullLength(vhl, 1), ep,
                 [netUp |-> up, usHeaderCrc |-> crc[1], usProtocolCrc |-> crc[2]])

SpecFilter == InitFilter /\ [][NextPath]_vars

(***************************************************************************)
(* SpecFragment: every kind of fragment field under every setting of the   *)
(* checksum configuration.                                                 *)
(***************************************************************************)
FragSet ==
    { << 0, 0 >>, << 64, 0 >>, << 32, 0 >>, << 0, 1 >>, << 31, 255 >>,
      << 32, 185 >>, << 96, 0 >>, << 16, 0 >> }

InitFragment ==
    \E c \in {x \in CfgSet : x.IP_PASS_PACKETS_WITH_IP_OPTIONS = 1},
       vhl \in {69, 70, 0},
       frag \in FragSet,
       dst \in {LocalIP, ForeignIP},
       srcMAC \in {LocalMAC, OtherMAC},
       ep \in {NULL, "ep"},
       up \in BOOLEAN,
       crc \in {<< 65535, 65535 >>, << 65534, 65535 >>, << 65535, 0 >>},
       csum \in {0, 4660} :
        Received(c,
                 [dstMAC |-> LocalMAC, srcMAC |-> srcMAC, type |-> TypeIPv4,
                  vhl |-> vhl, total |-> FullLength(vhl, 1) - ipSIZE_OF_ETH_HEADER,
                  frag |-> frag, proto |-> ipPROTOCOL_UDP, src |-> SenderIP, dst |-> dst,
                  tail |-> UdpTail(vhl, 1, csum, 1)],
                 FullLength(vhl, 1), ep,
                 [netUp |-> up, usHeaderCrc |-> crc[1], usProtocolCrc |-> crc[2]])

SpecFragment == InitFragment /\ [][NextPath]_vars

(***************************************************************************)
(* SpecHeader: every value of the version/header-length byte.              *)
(***************************************************************************)
InitHeader ==
    \E c \in {x \in CfgSet : x.HAS_PRINTF = 1 /\ x.IP_PASS_PACKETS_WITH_IP_OPTIONS = 1},
       vhl \in Byte,
       frag \in {<< 0, 0 >>, << 64, 0 >>, << 32, 0 >>, << 0, 1 >>},
       dst \in {LocalIP, ForeignIP} :
        Received(c,
                 [dstMAC |-> LocalMAC, srcMAC |-> OtherMAC, type |-> TypeIPv4,
                  vhl |-> vhl, total |-> FullLength(vhl, 1) - ipSIZE_OF_ETH_HEADER,
                  frag |-> frag, proto |-> ipPROTOCOL_UDP, src |-> SenderIP, dst |-> dst,
                  tail |-> UdpTail(vhl, 1, 4660, 1)],
                 FullLength(vhl, 1), NULL,
                 [netUp |-> TRUE, usHeaderCrc |-> 65535, usProtocolCrc |-> 65535])

SpecHeader == InitHeader /\ [][NextPath]_vars

(***************************************************************************)
(* SpecChecksum: family B over header lengths 20..60, loopback and foreign *)
(* senders, checksum results, UDP checksum fields and frame lengths.       *)
(***************************************************************************)
InitChecksum ==
    \E c \in {x \in CfgSet : x.HAS_PRINTF = 1},
       vhl \in 69 .. 79,
       type \in {TypeIPv4, TypeIPv6},
       srcMAC \in {LocalMAC, OtherMAC},
       crc \in CrcPairs,
       proto \in {ipPROTOCOL_UDP, 6},
       csum \in {0, 4660},
       x \in {0, 1},
       short \in BOOLEAN :
        Received(c,
                 [dstMAC |-> LocalMAC, srcMAC |-> srcMAC, type |-> type,
                  vhl |-> vhl, total |-> FullLength(vhl, MaxPayload) - ipSIZE_OF_ETH_HEADER,
                  frag |-> << 0, 0 >>, proto |-> proto, src |-> SenderIP, dst |-> LocalIP,
                  tail |-> UdpTail(vhl, x, csum, MaxPayload)],
                 IF short THEN ipSIZE_OF_ETH_HEADER + ipSIZE_OF_IPv4_HEADER
                 ELSE FullLength(vhl, MaxPayload),
                 NULL,
                 [netUp |-> TRUE, usHeaderCrc |-> crc[1], usProtocolCrc |-> crc[2]])

SpecChecksum == InitChecksum /\ [][NextPath]_vars

(***************************************************************************)
(* SpecMulticast: xIsIPv4Multicast over addresses around the multicast     *)
(* block.                                                                  *)
(***************************************************************************)
AddressSamples ==
    { << a, b, c, d >> : a \in {0, 10, 127, 192, 223, 224, 225, 232, 239, 240, 255},
                         b \in {0, 255}, c \in {0, 255}, d \in {0, 1, 224, 239, 255} }

StrictCfg ==
    [ ETHERNET_DRIVER_FILTERS_PACKETS |-> 1, DRIVER_INCLUDED_RX_IP_CHECKSUM |-> 1,
      UDP_PASS_ZERO_CHECKSUM_PACKETS |-> 0, HAS_PRINTF |-> 1,
      IP_PASS_PACKETS_WITH_IP_OPTIONS |-> 1 ]

NoEnv == [netUp |-> TRUE, usHeaderCrc |-> 65535, usProtocolCrc |-> 65535]

InitMulticast ==
    /\ ulIPAddress \in AddressSamples
    /\ xReturn = "none"
    /\ pc = "classify"
    /\ cfg = StrictCfg
    /\ buf = << >>
    /\ xDataLength = 0
    /\ pxEndPoint = NULL
    /\ env = NoEnv
    /\ eReturn = "none"
    /\ eCheck = "none"
    /\ calls = {}
    /\ xCount = 0
    /\ nLog = 0
    /\ nCalls = 0
    /\ nDropped = 0
    /\ orig = [buf |-> << >>, xDataLength |-> 0, underflow |-> FALSE]
    /\ fault = FALSE
    /\ ctx = << >>

Classify ==
    /\ pc = "classify"
    /\ xReturn' = xIsIPv4Multicast(Word32(ulIPAddress))
    /\ pc' = "classified"
    /\ UNCHANGED << cfg, buf, xDataLength, pxEndPoint, env, eReturn, eCheck, calls,
                    xCount, nLog, nCalls, nDropped, orig, fault, ulIPAddress, ctx >>

SpecMulticast == InitMulticast /\ [][Classify]_vars

(***************************************************************************)
(* SpecOptions: the receive path on frames whose header carries options.   *)
(* The driver filters (family A is compiled out) and the frames are        *)
(* looped back (their source MAC is a local endpoint's), so the software   *)
(* checksum block accepts them without calling a routine that looks at     *)
(* their length fields: every version nibble and every value of the        *)
(* total-length field reaches the normalizer.                              *)
(***************************************************************************)
MovedBytes(n) == [i \in 1 .. n |-> 10 + i]

InitOptions ==
    \E c \in {x \in CfgSet : /\ x.ETHERNET_DRIVER_FILTERS_PACKETS = 1
                             /\ x.DRIVER_INCLUDED_RX_IP_CHECKSUM = 0
                             /\ x.UDP_PASS_ZERO_CHECKSUM_PACKETS = 0
                             /\ x.HAS_PRINTF = 1},
       version \in {4, 6, 0, 15},
       ihl \in 6 .. 15,
       n \in {0} \cup (8 .. (8 + MaxPayload)),
       t \in {"fits", "zero", "below", "equal"} :
        LET vhl == 16 * version + ihl
            optlen == 4 * ihl - 20
            total == CASE t = "fits" -> 4 * ihl + n
                       [] t = "zero" -> 0
                       [] t = "below" -> optlen - 1
                       [] t = "equal" -> optlen
        IN  Received(c,
                     [dstMAC |-> LocalMAC, srcMAC |-> LocalMAC, type |-> TypeIPv4,
                      vhl |-> vhl, total |-> total, frag |-> << 0, 0 >>,
                      proto |-> ipPROTOCOL_UDP, src |-> SenderIP, dst |-> LocalIP,
                      tail |-> Fill(optlen, 7) \o MovedBytes(n)],
                     ipSIZE_OF_ETH_HEADER + 4 * ihl + n,
                     NULL,
                     NoEnv)

SpecOptions == InitOptions /\ [][NextPath]_vars

(***************************************************************************)
(* SpecLog: one receive context handing frame after frame to the filter.   *)
(***************************************************************************)
PlainFrame(proto, csum) ==
    MkFrame([dstMAC |-> LocalMAC, srcMAC |-> OtherMAC, type |-> TypeIPv4,
             vhl |-> 69, total |-> FullLength(69, 1) - ipSIZE_OF_ETH_HEADER,
             frag |-> << 0, 0 >>, proto |-> proto, src |-> SenderIP, dst |-> LocalIP,
             tail |-> UdpTail(69, 1, csum, 1)])

ZeroUdpFrame == PlainFrame(ipPROTOCOL_UDP, 0)
LogFrames == {ZeroUdpFrame, PlainFrame(ipPROTOCOL_UDP, 4660), PlainFrame(6, 0)}

InitLog ==
    /\ cfg \in {x \in CfgSet : /\ x.DRIVER_INCLUDED_RX_IP_CHECKSUM = 1
                               /\ x.IP_PASS_PACKETS_WITH_IP_OPTIONS = 1}
    /\ buf \in LogFrames
    /\ xDataLength = FullLength(69, 1)
    /\ pxEndPoint = NULL
    /\ env = NoEnv
    /\ pc = "received"
    /\ InitRest

Receive ==
    /\ pc = "filtered"
    /\ nCalls < MaxCalls
    /\ buf' \in LogFrames
    /\ pc' = "received"
    /\ UNCHANGED << cfg, xDataLength, pxEndPoint, env, eReturn, eCheck, calls, xCount,
                    nLog, nCalls, nDropped, orig, fault, ulIPAddress, xReturn, ctx >>

NextLog == Allow \/ Receive

SpecLog == InitLog /\ [][NextLog]_vars

(***************************************************************************)
(* SpecConc: NumCtx receive contexts, each on a zero-checksum UDP frame of *)
(* its own, stepping through lines 259-269 with no lock: the test of       *)
(* xCount, the print, the load and the store of xCount++, the verdict.     *)
(***************************************************************************)
InitConc ==
    /\ cfg = StrictCfg
    /\ buf = ZeroUdpFrame
    /\ xDataLength = FullLength(69, 1)
    /\ pxEndPoint = NULL
    /\ env = NoEnv
    /\ pc = "concurrent"
    /\ eReturn = "none"
    /\ eCheck = "none"
    /\ calls = {}
    /\ xCount = 0
    /\ nLog = 0
    /\ nCalls = 0
    /\ nDropped = 0
    /\ orig = [buf |-> << >>, xDataLength |-> 0, underflow |-> FALSE]
    /\ fault = FALSE
    /\ ulIPAddress = << 0, 0, 0, 0 >>
    /\ xReturn = "none"
    /\ ctx = [i \in 1 .. NumCtx |-> [pc |-> "idle", tmp |-> 0, frames |-> 0]]

ConcUnchanged ==
    UNCHANGED << cfg, buf, xDataLength, pxEndPoint, env, eCheck, calls, pc, orig, fault,
                 ulIPAddress, xReturn >>

\* the context's frame reaches line 252 and its UDP checksum is zero
Enter(i) ==
    /\ ctx[i].pc = "idle"
    /\ ctx[i].frames < MaxFramesPerCtx
    /\ cfg.DRIVER_INCLUDED_RX_IP_CHECKSUM # 0
    /\ DriverChecksum(cfg, buf, xDataLength) = "zero-checksum-udp"
    /\ ctx' = [ctx EXCEPT ![i].pc = "test"]
    /\ nCalls' = nCalls + 1
    /\ UNCHANGED << xCount, nLog, nDropped, eReturn >>
    /\ ConcUnchanged

\* line 259: if( xCount < 5 )
Test(i) ==
    /\ ctx[i].pc = "test"
    /\ ctx' = [ctx EXCEPT ![i].pc = IF LogGuard(cfg, xCount) THEN "print" ELSE "release"]
    /\ UNCHANGED << xCount, nLog, nCalls, nDropped, eReturn >>
    /\ ConcUnchanged

\* lines 261-262: FreeRTOS_printf
EmitLine(i) ==
    /\ ctx[i].pc = "print"
    /\ nLog' = nLog + 1
    /\ ctx' = [ctx EXCEPT ![i].pc = "load"]
    /\ UNCHANGED << xCount, nCalls, nDropped, eReturn >>
    /\ ConcUnchanged

\* line 263: xCount++, the load
LoadCount(i) ==
    /\ ctx[i].pc = "load"
    /\ ctx' = [ctx EXCEPT ![i].tmp = xCount, ![i].pc = "store"]
    /\ UNCHANGED << xCount, nLog, nCalls, nDropped, eReturn >>
    /\ ConcUnchanged

\* line 263: xCount++, the store
StoreCount(i) ==
    /\ ctx[i].pc = "store"
    /\ xCount' = ctx[i].tmp + 1
    /\ ctx' = [ctx EXCEPT ![i].pc = "release"]
    /\ UNCHANGED << nLog, nCalls, nDropped, eReturn >>
    /\ ConcUnchanged

\* line 269: eReturn = eReleaseBuffer, and the call returns
Release(i) ==
    /\ ctx[i].pc = "release"
    /\ eReturn' = eReleaseBuffer
    /\ nDropped' = nDropped + 1
    /\ ctx' = [ctx EXCEPT ![i].pc = "idle", ![i].frames = @ + 1]
    /\ UNCHANGED << xCount, nLog, nCalls >>
    /\ ConcUnchanged

NextConc ==
    \E i \in 1 .. NumCtx :
        \/ Enter(i)
        \/ Test(i)
        \/ EmitLine(i)
        \/ LoadCount(i)
        \/ StoreCount(i)
        \/ Release(i)

SpecConc == InitConc /\ [][NextConc]_vars

(***************************************************************************)
(* The frame as the wire shows it, read byte by byte.                      *)
(***************************************************************************)
FamilyAChecks ==
    { "fragment", "version", "destination", "source", "broadcast-mac", "source-mac",
      "multicast-source" }

\* fragment offset bits (13) or the more-fragments flag of bytes 20-21
WireFragment(b) ==
    \/ At(b, 20) % 32 # 0
    \/ At(b, 21) # 0
    \/ (At(b, 20) \div 32) % 2 = 1

WireDestination(b) == << At(b, 30), At(b, 31), At(b, 32), At(b, 33) >>
WireHeaderLength(b) == (At(b, 14) % 16) * 4
WireTotalLength(b) == 256 * At(b, 16) + At(b, 17)
FilteredA == pc = "filtered" /\ cfg.ETHERNET_DRIVER_FILTERS_PACKETS = 0

(***************************************************************************)
(* C1 (as amended).  With family A active, for a frame that is not         *)
(* fragmented and whose version/header-length byte is valid, the           *)
(* destination check releases the frame if and only if the buffer          *)
(* descriptor has no endpoint, no local endpoint owns the destination      *)
(* address, its last octet is not 255, it is not multicast and the network *)
(* is up.                                                                  *)
(***************************************************************************)
C1_FourConditions ==
    /\ WireDestination(buf) # LocalIP
    /\ At(buf, 33) # 255
    /\ At(buf, 30) \notin 224 .. 239
    /\ env.netUp

C1_Case == FilteredA /\ ~WireFragment(buf) /\ At(buf, 14) \in 69 .. 79

C1_DestinationCheckAmended ==
    C1_Case =>
        /\ (eCheck = "destination") <=> (pxEndPoint = NULL /\ C1_FourConditions)
        /\ eCheck = "destination" => eReturn = eReleaseBuffer
        /\ ~env.netUp => eCheck # "destination"
        /\ At(buf, 33) = 255 => eCheck # "destination"

\* C1 as stated: the check releases the frame exactly when the four
\* conditions hold, whatever the buffer descriptor's endpoint.
C1_DestinationCheckOriginal ==
    C1_Case => ((eCheck = "destination") <=> C1_FourConditions)

C1_Witness ==
    /\ C1_Case
    /\ pxEndPoint = NULL
    /\ WireDestination(buf) = ForeignIP
    /\ eCheck = "destination"
    /\ eReturn = eReleaseBuffer

(***************************************************************************)
(* C2.  With family A active every frame whose fragment offset is nonzero  *)
(* or whose more-fragments flag is set is released, by the fragment check, *)
(* whatever the other header fields, the endpoint and link state and the   *)
(* checksum configuration; it never reaches the normalizer.                *)
(***************************************************************************)
C2_FragmentsDiscarded ==
    (pc # "received" /\ cfg.ETHERNET_DRIVER_FILTERS_PACKETS = 0 /\ WireFragment(buf)) =>
        /\ eReturn = eReleaseBuffer
        /\ eCheck = "fragment"
        /\ calls = {}
        /\ pc = "filtered"

C2_Witness ==
    /\ FilteredA
    /\ << At(buf, 20), At(buf, 21) >> = << 32, 0 >>
    /\ At(buf, 14) = 69
    /\ WireDestination(buf) = LocalIP
    /\ env.usHeaderCrc = ipCORRECT_CRC
    /\ env.usProtocolCrc = ipCORRECT_CRC
    /\ eReturn = eReleaseBuffer

(***************************************************************************)
(* C3.  With family B active and no family A check failing: a frame whose  *)
(* source MAC is no local endpoint's is released when the IP header        *)
(* checksum result or the protocol checksum result is not ipCORRECT_CRC    *)
(* and accepted when both are; a frame whose source MAC is a local         *)
(* endpoint's is accepted with neither checksum routine invoked.           *)
(***************************************************************************)
C3_Case ==
    /\ pc = "filtered"
    /\ cfg.DRIVER_INCLUDED_RX_IP_CHECKSUM = 0
    /\ eCheck \notin FamilyAChecks

C3_SoftwareChecksum ==
    C3_Case =>
        IF SubSeq(buf, 7, 12) # LocalMAC
        THEN /\ "usGenerateChecksum" \in calls
             /\ (eReturn = eReleaseBuffer) <=>
                    \/ env.usHeaderCrc # ipCORRECT_CRC
                    \/ usGenerateProtocolChecksum(buf, xDataLength, env) # ipCORRECT_CRC
             /\ (eReturn = eProcessBuffer) <=> (eReturn # eReleaseBuffer)
        ELSE /\ calls = {}
             /\ eReturn = eProcessBuffer

C3_Witness ==
    /\ C3_Case
    /\ SubSeq(buf, 7, 12) = LocalMAC
    /\ env.usHeaderCrc # ipCORRECT_CRC
    /\ eReturn = eProcessBuffer

(***************************************************************************)
(* C4.  With the driver validating receive checksums and zero-checksum UDP *)
(* forbidden, an IPv4 UDP frame that passes every other check is released  *)
(* if and only if the checksum field of the UDP header behind the frame's  *)
(* actual IP header (20 to 60 bytes) is zero.                              *)
(***************************************************************************)
C4_Case ==
    /\ pc = "filtered"
    /\ cfg.DRIVER_INCLUDED_RX_IP_CHECKSUM = 1
    /\ cfg.UDP_PASS_ZERO_CHECKSUM_PACKETS = 0
    /\ << At(buf, 12), At(buf, 13) >> = TypeIPv4
    /\ At(buf, 23) = ipPROTOCOL_UDP
    /\ WireHeaderLength(buf) \in 20 .. 60
    /\ eCheck \in {"pass", "zero-checksum-udp"}

C4_ZeroChecksumBehindActualHeader ==
    C4_Case =>
        ((eReturn = eReleaseBuffer) <=>
            (At(buf, 14 + WireHeaderLength(buf) + 6) = 0
             /\ At(buf, 14 + WireHeaderLength(buf) + 7) = 0))

(***************************************************************************)
(* C5 (as amended).  With option pass-through, for a frame with header     *)
(* length H in 24..60 and data length L >= 14 + H, the normalizer accepts  *)
(* and leaves: data length L - (H - 20); the total-length field reduced by *)
(* H - 20 when it was at least H - 20; the version nibble unchanged and    *)
(* the length nibble 5; the bytes of [14 + H, L) unchanged and in order at *)
(* [34, L - (H - 20)).                                                     *)
(***************************************************************************)
C5_Case ==
    /\ pc = "done"
    /\ cfg.IP_PASS_PACKETS_WITH_IP_OPTIONS = 1
    /\ WireHeaderLength(orig.buf) \in 24 .. 60
    /\ orig.xDataLength >= 14 + WireHeaderLength(orig.buf)

C5_Frame(H, L) ==
    /\ eReturn = eProcessBuffer
    /\ ~fault
    /\ xDataLength = L - (H - 20)
    /\ At(buf, 14) \div 16 = At(orig.buf, 14) \div 16
    /\ At(buf, 14) % 16 = 5
    /\ \A i \in (14 + H) .. (L - 1) : At(buf, i - (H - 20)) = At(orig.buf, i)
    /\ \A i \in 0 .. 33 : i \notin {14, 16, 17} => At(buf, i) = At(orig.buf, i)

C6_MoveInsideFrame ==
    (pc = "done" /\ cfg.IP_PASS_PACKETS_WITH_IP_OPTIONS = 1) =>
        /\ ~orig.underflow
        /\ ~fault

(***************************************************************************)
(* C7.  xIsIPv4Multicast returns pdTRUE exactly for the addresses that, in *)
(* host byte order, lie in [224.0.0.0, 240.0.0.0): the addresses whose     *)
(* first octet on the wire is 224..239.                                    *)
(***************************************************************************)
C7_MulticastRange ==
    pc = "classified" =>
        /\ xReturn \in {pdTRUE, pdFALSE}
        /\ (xReturn = pdTRUE) <=> (ulIPAddress[1] >= 224 /\ ulIPAddress[1] < 240)
        /\ ulIPAddress = << 223, 255, 255, 255 >> => xReturn = pdFALSE
        /\ ulIPAddress = << 224, 0, 0, 0 >> => xReturn = pdTRUE
        /\ ulIPAddress = << 239, 255, 255, 255 >> => xReturn = pdTRUE
        /\ ulIPAddress = << 240, 0, 0, 0 >> => xReturn = pdFALSE

C7_Witness ==
    /\ pc = "classified"
    /\ ulIPAddress = << 239, 255, 255, 255 >>
    /\ xReturn = pdTRUE

(***************************************************************************)
(* C8 (as amended).  With family A active a frame that is not fragmented   *)
(* is released by the header-length/version check exactly when its         *)
(* version/header-length byte is outside 0x45..0x4F: when the version      *)
(* nibble is not 4 or the encoded header length is outside 20..60 bytes.   *)
(***************************************************************************)
C8_Case == FilteredA /\ ~WireFragment(buf)

C8_VersionHeaderLengthAmended ==
    C8_Case =>
        /\ (eCheck = "version") <=>
               (At(buf, 14) \div 16 # 4 \/ WireHeaderLength(buf) \notin 20 .. 60)
        /\ eCheck = "version" => eReturn = eReleaseBuffer
        /\ At(buf, 14) \in {69, 79} => eCheck # "version"
        /\ WireHeaderLength(buf) < 20 => eCheck = "version"

\* C8 as stated: released exactly when the byte does not encode a header
\* length of 20..60 bytes.
C8_VersionHeaderLengthOriginal ==
    C8_Case => ((eCheck = "version") <=> (WireHeaderLength(buf) \notin 20 .. 60))

C8_Witness ==
    /\ C8_Case
    /\ At(buf, 14) = 85
    /\ eCheck = "version"
    /\ eReturn = eReleaseBuffer

(***************************************************************************)
(* C9.  Over any sequence of filter calls the zero-checksum path emits at  *)
(* most 5 lines, the counter never passes 5 and counts the lines, and the  *)
(* verdict does not depend on the counter or on logging being compiled in: *)
(* a zero-checksum UDP frame is released on every occurrence.              *)
(***************************************************************************)
C9_RateLimitedLog ==
    /\ xCount <= 5
    /\ nLog <= 5
    /\ nLog = xCount
    /\ cfg.HAS_PRINTF = 0 => nLog = 0
    /\ (pc = "filtered" /\ buf = ZeroUdpFrame) =>
           IF cfg.UDP_PASS_ZERO_CHECKSUM_PACKETS = 0
           THEN eReturn = eReleaseBuffer /\ eCheck = "zero-checksum-udp"
           ELSE eReturn = eProcessBuffer
    /\ (pc = "filtered" /\ buf # ZeroUdpFrame) => eReturn = eProcessBuffer
    /\ (cfg.HAS_PRINTF = 1 /\ pc = "filtered") =>
           nLog = (IF nDropped < 5 THEN nDropped ELSE 5)

C9_Witness ==
    /\ pc = "filtered"
    /\ cfg.HAS_PRINTF = 1
    /\ nDropped = 6
    /\ xCount = 5
    /\ nLog = 5
    /\ buf = ZeroUdpFrame
    /\ eReturn = eReleaseBuffer

(***************************************************************************)
(* C10.  With several receive contexts in the filter at once and no lock,  *)
(* the diagnostic lines emitted never exceed 5 and the counter never       *)
(* exceeds 5.                                                              *)
(***************************************************************************)
C10_AtMostFiveLines == nLog <= LogLimit /\ xCount <= LogLimit

====
